---- MODULE Spec2Model ----
(***************************************************************************)
(* A model of the two scripts of 00_Jash:                                  *)
(*   analyze_gujlish_dataset.py  main(): load_data, analyze_conversations, *)
(*                               the printed report, create_visualizations *)
(*   jsonToCSV.py                json_to_csv_pandas, json_to_csv_manual    *)
(*                                                                         *)
(* A Python str is a sequence of one-character strings.  A dict carries a  *)
(* function whose DOMAIN is its key set.  A float ratio n/d is the pair    *)
(* <<n, d>> of integers (rounding of the quotient is not modelled).        *)
(***************************************************************************)
EXTENDS Integers, Sequences, FiniteSets, TLC

\* ------------------------------------------------------------------ bounds
\* Longest mixed text ('gujlish') of the exhaustively enumerated turns.
MaxLen == 3
\* Longest reference text ('english') of the exhaustively enumerated turns.
MaxRefLen == 1
\* Most topic records in a document.
MaxTopics == 2
\* Most turns in a document, over all its topics.
MaxTurns == 2

\* ------------------------------------------------------- Python characters
Range(s) == {s[i] : i \in DOMAIN s}

AsciiLower ==
    << "a", "b", "c", "d", "e", "f", "g", "h", "i", "j", "k", "l", "m",
       "n", "o", "p", "q", "r", "s", "t", "u", "v", "w", "x", "y", "z" >>

AsciiUpper ==
    << "A", "B", "C", "D", "E", "F", "G", "H", "I", "J", "K", "L", "M",
       "N", "O", "P", "Q", "R", "S", "T", "U", "V", "W", "X", "Y", "Z" >>

AsciiDigits == {"0", "1", "2", "3", "4", "5", "6", "7", "8", "9"}

\* string.punctuation (the grave accent, which a string literal of this
\* language cannot hold, is left out of the character universe).
Punctuation ==
    { "!", "\"", "#", "$", "%", "&", "'", "(", ")", "*", "+", ",", "-", ".",
      "/", ":", ";", "<", "=", ">", "?", "@", "[", "\\", "]", "^", "_",
      "{", "|", "}", "~" }

\* The characters str.strip() and str.split() treat as whitespace.
Whitespace == {" ", "\t", "\n", "\r", "\f"}

AsciiUpperSet == Range(AsciiUpper)

AsciiLetters == Range(AsciiLower) \cup AsciiUpperSet

\* The pattern without its A-Z range.
LowercaseLetterOnly(c) == c \in Range(AsciiLower)

\* [a-zA-Z]
IsAsciiLetter(c) == c \in AsciiLetters

\* \w of a str pattern, over the ASCII characters: letters, digits, underscore.
WordChars == AsciiLetters \cup AsciiDigits \cup {"_"}

IsWordChar(c) == c \in WordChars

\* ----------------------------------------------------------- str methods
\* str.lower(), one character.
LowerChar(c) ==
    IF c \in AsciiUpperSet
      THEN AsciiLower[CHOOSE i \in DOMAIN AsciiUpper : AsciiUpper[i] = c]
      ELSE c

str_lower(text) == [i \in DOMAIN text |-> LowerChar(text[i])]

\* str.strip(): drops the leading and the trailing whitespace.
str_strip(text) ==
    LET keep == {i \in DOMAIN text : text[i] \notin Whitespace}
    IN  IF keep = {} THEN << >>
        ELSE LET first == CHOOSE i \in keep : \A j \in keep : i <= j
                 last  == CHOOSE i \in keep : \A j \in keep : j <= i
             IN  SubSeq(text, first, last)

\* text.translate(str.maketrans(.., string.punctuation)): deletes every
\* punctuation character and keeps everything else, whitespace included.
str_delete_punctuation(text) == SelectSeq(text, LAMBDA c : c \notin Punctuation)

\* str.split() with no argument: the maximal runs of non-whitespace.
RECURSIVE SplitFrom(_, _)
SplitFrom(text, pos) ==
    IF pos > Len(text) THEN << >>
    ELSE IF text[pos] \in Whitespace THEN SplitFrom(text, pos + 1)
    ELSE LET stops == {j \in pos..Len(text) : text[j] \in Whitespace}
             end   == IF stops = {} THEN Len(text) + 1
                      ELSE CHOOSE j \in stops : \A k \in stops : j <= k
         IN  << SubSeq(text, pos, end - 1) >> \o SplitFrom(text, end)

str_split(text) == SplitFrom(text, 1)

\* --------------------------------------------------- re: \b[a-zA-Z]+\b
\* \b at position pos (between text[pos-1] and text[pos]): exactly one of the
\* two neighbours is a word character; the ends of the text count as non-word.
WordBoundary(text, pos) ==
    LET before == pos > 1 /\ IsWordChar(text[pos - 1])
        after  == pos <= Len(text) /\ IsWordChar(text[pos])
    IN  before # after

\* The position after a match of \b[a-zA-Z]+\b starting at pos, or 0 when there
\* is none: [a-zA-Z]+ is greedy and backtracks to the longest run of letters
\* that ends on a word boundary.
\* The first position from pos on that holds no ASCII letter.
RECURSIVE LetterRunEnd(_, _)
LetterRunEnd(text, pos) ==
    IF pos <= Len(text) /\ IsAsciiLetter(text[pos])
      THEN LetterRunEnd(text, pos + 1)
      ELSE pos

MatchEnd(text, pos) ==
    IF ~WordBoundary(text, pos) THEN 0
    ELSE LET ends == {e \in (pos + 1)..LetterRunEnd(text, pos) : WordBoundary(text, e)}
         IN  IF ends = {} THEN 0
             ELSE CHOOSE e \in ends : \A f \in ends : f <= e

\* re.findall scans left to right for non-overlapping matches.
RECURSIVE FindAllFrom(_, _)
FindAllFrom(text, pos) ==
    IF pos > Len(text) THEN << >>
    ELSE LET e == MatchEnd(text, pos)
         IN  IF e = 0 THEN FindAllFrom(text, pos + 1)
             ELSE << SubSeq(text, pos, e - 1) >> \o FindAllFrom(text, e)

re_findall_words(text) == FindAllFrom(text, 1)

\* ------------------------------------------------------- normalize_text
normalize_text(text) == str_delete_punctuation(str_strip(str_lower(text)))

are_sentences_identical(gujlish, english) ==
    normalize_text(gujlish) = normalize_text(english)

\* ------------------------------------------------------------ JSON values
\* What json.load returns: a dict is tagged "object" and carries its items, a
\* function on its keys; any other element (here the number 5) is not a dict.
JObject(d) == [type |-> "object", items |-> d]

JNumber == [type |-> "number"]

IsDict(v) == v.type = "object"

HasKey(v, k) == k \in DOMAIN v.items

\* Python's None, as a field value: no str, since a str is a sequence of
\* single characters.
PyNone == << "<None>" >>

\* v[k]: raises TypeError on a non-dict, KeyError on a missing key.
SubscriptFault(v, k) ==
    IF ~IsDict(v) THEN "TypeError"
    ELSE IF ~HasKey(v, k) THEN "KeyError"
    ELSE "none"

\* v.get(k, default): raises AttributeError on a non-dict (see GetFault).
Get(v, k, default) == IF HasKey(v, k) THEN v.items[k] ELSE default

GetFault(v) == IF IsDict(v) THEN "none" ELSE "AttributeError"

\* ------------------------------------------------------------- documents
Hello == << "H", "e", "l", "l", "o", ",", " ", "k", "e", "m", " ", "c", "h", "h", "o", "?" >>

Mane == << "M", "a", "n", "e", " ", "e", "k", " ", "c", "o", "f", "f", "e", "e", " ", "j", "o", "i", "e" >>

IWant == << "I", " ", "w", "a", "n", "t", " ", "a", " ", "c", "o", "f", "f", "e", "e" >>

Dont == << "d", "o", "n", "'", "t" >>

DoNot == << "d", "o", " ", "n", "o", "t" >>

Speaker == << "A" >>

Food == << "f", "o", "o", "d" >>

Travel == << "t", "r", "a", "v", "e", "l" >>

UnknownTopic == << "U", "n", "k", "n", "o", "w", "n", " ", "T", "o", "p", "i", "c" >>

TurnHello == JObject([speaker |-> Speaker, gujlish |-> Hello, english |-> Hello])

TurnMane == JObject([speaker |-> Speaker, gujlish |-> Mane, english |-> IWant])

TurnDont == JObject([gujlish |-> Dont, english |-> DoNot])

TurnEmpty == JObject([speaker |-> Speaker, gujlish |-> << >>, english |-> << >>])

\* A turn without the 'gujlish' and 'english' keys.
TurnNoText == JObject([speaker |-> Speaker])

\* A turn without the 'english' key.
TurnNoEnglish == JObject([speaker |-> Speaker, gujlish |-> Hello])

\* A turn without the 'gujlish' key.
TurnNoGujlish == JObject([speaker |-> Speaker, english |-> Hello])

\* The characters of the exhaustively enumerated texts: a lowercase and an
\* uppercase letter, a digit, a punctuation character and a blank.
Alphabet == {"a", "A", "1", ".", " "}

\* The characters of their reference texts.
RefAlphabet == {"a", "."}

Strings(alphabet, n) == UNION {[1..k -> alphabet] : k \in 0..n}

\* How a topic element of the document is built around its turns.
NamedHeads == {[kind |-> "named", topic |-> Food], [kind |-> "named", topic |-> Travel]}

NoTopicKey == [kind |-> "no_topic"]

NoConversationsKey == [kind |-> "no_conversations", topic |-> Food]

NotADict == [kind |-> "not_a_dict"]

MakeTopic(head, turns) ==
    CASE head.kind = "named" ->
           JObject([topic |-> head.topic, conversations |-> turns])
      [] head.kind = "no_topic" -> JObject([conversations |-> turns])
      [] head.kind = "no_conversations" -> JObject([topic |-> head.topic])
      [] head.kind = "not_a_dict" -> JNumber

\* The ways to cut n turns into nt consecutive (possibly empty) topics.
Cuts(nt, n) ==
    {c \in [0..nt -> 0..n] :
        /\ c[0] = 0
        /\ c[nt] = n
        /\ \A i \in 1..nt : c[i - 1] <= c[i]}

\* A document of nt topics built by heads hs around the turns of flat, cut at c.
MakeDoc(nt, hs, flat, c) ==
    [i \in 1..nt |-> MakeTopic(hs[i], SubSeq(flat, c[i - 1] + 1, c[i]))]

\* The cuts that leave a topic with no 'conversations' list without turns.
CutsFor(hs, nt, n) ==
    {c \in Cuts(nt, n) :
        \A i \in 1..nt :
            hs[i].kind \in {"no_conversations", "not_a_dict"} => c[i - 1] = c[i]}

Loaded(doc) == [status |-> "ok", content |-> doc]

\* file holds a document of at most MaxTopics topics holding, together, at
\* most MaxTurns turns drawn from Turns.
HoldsDocOver(file, Turns, Heads) ==
    \E nt \in 0..MaxTopics : \E n \in 0..MaxTurns :
      \E hs \in [1..nt -> Heads] : \E flat \in [1..n -> Turns] :
        \E c \in CutsFor(hs, nt, n) : file = Loaded(MakeDoc(nt, hs, flat, c))

\* file holds one topic with one turn, of a mixed text up to MaxLen over
\* Alphabet and a reference text up to MaxRefLen over RefAlphabet.
HoldsExhaustiveDoc(file) ==
    \E g \in Strings(Alphabet, MaxLen), e \in Strings(RefAlphabet, MaxRefLen) :
        file = Loaded(<< MakeTopic([kind |-> "named", topic |-> Food],
                                   << JObject([gujlish |-> g, english |-> e]) >>) >>)

\* file holds one topic with one of the turns of Turns.
HoldsSingleTurnDoc(file, Turns) ==
    \E t \in Turns :
        file = Loaded(<< MakeTopic([kind |-> "named", topic |-> Food], << t >>) >>)

\* file is absent, or is not JSON.
Unloadable(file) == file \in {[status |-> "missing"], [status |-> "invalid"]}

AnalysisTurns == {TurnHello, TurnMane, TurnEmpty, TurnNoText}

AnalysisHeads == NamedHeads \cup {NoTopicKey}

\* The input files of the analysis.
AnalysisInput(file) ==
    \/ Unloadable(file)
    \/ HoldsExhaustiveDoc(file)
    \/ HoldsDocOver(file, AnalysisTurns, AnalysisHeads)
    \/ HoldsSingleTurnDoc(file, {TurnDont, TurnNoEnglish, TurnNoGujlish})
    \/ file = Loaded(<< MakeTopic(NoConversationsKey, << >>) >>)

\* ------------------------------------------------------------------ state
VARIABLES
    json_file,            \* the input file 'gujlishConversationalDataset.json'
    pc,                   \* main(): the statement about to run
    fault,                \* the exception that ended main(), or "none"
    data,                 \* load_data's result
    ci, mi,               \* the loops' positions: conversation, message
    total_conversations, total_sentences, english_sentences,
    gujlish_sentences, identical_sentences,
    topics,               \* the Counter: its items, in insertion order
    eng_ratios, guj_ratios,
    norm_gujlish, norm_english,          \* the last turn's normalized texts
    total_words, eng_words, guj_words,   \* the last turn's word counts
    stats,                \* analyze_conversations' returned dict
    report,               \* what main() has printed
    plots,                \* the files of 'analysis_plots'
    p_pc, m_pc,           \* json_to_csv_pandas / json_to_csv_manual: position
    p_raw, m_raw,         \* their raw_data
    p_ti, p_ui, m_ti, m_ui,              \* their loops' positions: topic, turn
    p_counter, m_counter, \* their turn_id_counter
    all_conversation_turns,
    csv_pandas, csv_manual,              \* the two output files
    csv_writable,         \* whether the output paths can be opened for writing
    p_out, m_out          \* what each has printed

loopVars == << ci, mi >>

countVars ==
    << total_conversations, total_sentences, english_sentences,
       gujlish_sentences, identical_sentences, topics, eng_ratios, guj_ratios >>

turnVars == << norm_gujlish, norm_english, total_words, eng_words, guj_words >>

outVars == << stats, report, plots >>

analysisVars ==
    << pc, fault, data, loopVars, countVars, turnVars, outVars >>

exportVars ==
    << p_pc, m_pc, p_raw, m_raw, p_ti, p_ui, m_ti, m_ui, p_counter, m_counter,
       all_conversation_turns, csv_pandas, csv_manual, csv_writable, p_out, m_out >>

vars == << json_file, analysisVars, exportVars >>

\* ------------------------------------------------- analyze_conversations
\* Counter: topics[key] += 1.
CounterIncrement(counter, key) ==
    IF \E i \in DOMAIN counter : counter[i].key = key
      THEN [i \in DOMAIN counter |->
              IF counter[i].key = key
                THEN [counter[i] EXCEPT !.count = @ + 1]
                ELSE counter[i]]
      ELSE Append(counter, [key |-> key, count |-> 1])

\* Counter.most_common(n): by count, largest first, equal counts in insertion
\* order.
RECURSIVE MostCommon(_, _)
MostCommon(counter, n) ==
    IF n = 0 \/ counter = << >> THEN << >>
    ELSE LET best == CHOOSE i \in DOMAIN counter :
                        /\ \A j \in DOMAIN counter : counter[j].count <= counter[i].count
                        /\ \A j \in 1..(i - 1) : counter[j].count < counter[i].count
             rest == [j \in 1..(Len(counter) - 1) |->
                        IF j < best THEN counter[j] ELSE counter[j + 1]]
         IN  << counter[best] >> \o MostCommon(rest, n - 1)

\* The else branch counting nothing.
CountSentenceNoElse(identical, counts) ==
    IF identical
      THEN [identical |-> counts.identical + 1,
            english   |-> counts.english + 1,
            gujlish   |-> counts.gujlish]
      ELSE counts

\* Lines 42-46: the three sentence counters after one turn.
CountSentence(identical, counts) ==
    IF identical
      THEN [identical |-> counts.identical + 1,
            english   |-> counts.english + 1,
            gujlish   |-> counts.gujlish]
      ELSE [identical |-> counts.identical,
            english   |-> counts.english,
            gujlish   |-> counts.gujlish + 1]

\* Lines 49-52: the word counts of one mixed text.
MixCounts(gujlish_text) ==
    LET words == str_split(gujlish_text)
        total == Len(words)
        eng   == Len(re_findall_words(gujlish_text))
    IN  [total_words |-> total, eng_words |-> eng, guj_words |-> total - eng]

\* The list grown without the total_words > 0 guard.
AppendRatioUnguarded(ratios, n, total) == Append(ratios, << n, total >>)

\* Lines 53-55: the ratio n / total_words joins the list when there are words.
AppendRatio(ratios, n, total) ==
    IF total > 0 THEN Append(ratios, << n, total >>) ELSE ratios

\* sum(ratios) / len(ratios) if ratios else 0, as a fraction.
RECURSIVE RatioSum(_)
RatioSum(ratios) ==
    IF ratios = << >> THEN << 0, 1 >>
    ELSE LET h == Head(ratios)
             t == RatioSum(Tail(ratios))
         IN  << h[1] * t[2] + t[1] * h[2], h[2] * t[2] >>

Average(ratios) ==
    IF ratios # << >>
      THEN << RatioSum(ratios)[1], RatioSum(ratios)[2] * Len(ratios) >>
      ELSE << 0, 1 >>

NoStats == [returned |-> FALSE]

Raise(exception) == pc' = "raised" /\ fault' = exception

\* Lines 11-13 and 124.
LoadData ==
    /\ pc = "load_data"
    /\ IF json_file.status = "ok"
         THEN /\ data' = json_file.content
              /\ pc' = "analyze"
              /\ fault' = fault
         ELSE /\ Raise(IF json_file.status = "missing"
                         THEN "FileNotFoundError" ELSE "JSONDecodeError")
              /\ data' = data
    /\ UNCHANGED << json_file, loopVars, countVars, turnVars, outVars, exportVars >>

\* Lines 25-33.
AnalyzeBegin ==
    /\ pc = "analyze"
    /\ total_conversations' = Len(data)
    /\ total_sentences' = 0
    /\ english_sentences' = 0
    /\ gujlish_sentences' = 0
    /\ topics' = << >>
    /\ identical_sentences' = 0
    /\ eng_ratios' = << >>
    /\ guj_ratios' = << >>
    /\ pc' = "for_conversation"
    /\ UNCHANGED << json_file, fault, data, loopVars, turnVars, outVars, exportVars >>

\* Lines 35-37: the next conversation, its topic counted, its messages about
\* to be read.
NextConversation ==
    /\ pc = "for_conversation"
    /\ ci < Len(data)
    /\ LET conversation == data[ci + 1]
       IN  /\ ci' = ci + 1
           /\ mi' = 0
           /\ IF SubscriptFault(conversation, "topic") # "none"
                THEN /\ Raise(SubscriptFault(conversation, "topic"))
                     /\ topics' = topics
                ELSE /\ topics' = CounterIncrement(topics, conversation.items.topic)
                     /\ IF SubscriptFault(conversation, "conversations") # "none"
                          THEN Raise(SubscriptFault(conversation, "conversations"))
                          ELSE pc' = "for_message" /\ fault' = fault
    /\ UNCHANGED << json_file, data, total_conversations, total_sentences,
                    english_sentences, gujlish_sentences, identical_sentences,
                    eng_ratios, guj_ratios, turnVars, outVars, exportVars >>

\* Lines 37-55: one message.
ProcessMessage ==
    /\ pc = "for_message"
    /\ mi < Len(data[ci].items.conversations)
    /\ LET message == data[ci].items.conversations[mi + 1]
           missing ==
             IF SubscriptFault(message, "gujlish") # "none"
               THEN SubscriptFault(message, "gujlish")
               ELSE SubscriptFault(message, "english")
       IN  /\ mi' = mi + 1
           /\ total_sentences' = total_sentences + 1
           /\ IF missing # "none"
                THEN /\ Raise(missing)
                     /\ UNCHANGED << english_sentences, gujlish_sentences,
                                     identical_sentences, eng_ratios, guj_ratios,
                                     turnVars >>
                ELSE LET gujlish_text == message.items.gujlish
                         english_text == message.items.english
                         counts == CountSentence(
                                     are_sentences_identical(gujlish_text, english_text),
                                     [identical |-> identical_sentences,
                                      english   |-> english_sentences,
                                      gujlish   |-> gujlish_sentences])
                         mix == MixCounts(gujlish_text)
                     IN  /\ norm_gujlish' = normalize_text(gujlish_text)
                         /\ norm_english' = normalize_text(english_text)
                         /\ identical_sentences' = counts.identical
                         /\ english_sentences' = counts.english
                         /\ gujlish_sentences' = counts.gujlish
                         /\ total_words' = mix.total_words
                         /\ eng_words' = mix.eng_words
                         /\ guj_words' = mix.guj_words
                         /\ eng_ratios' = AppendRatio(eng_ratios, mix.eng_words, mix.total_words)
                         /\ guj_ratios' = AppendRatio(guj_ratios, mix.guj_words, mix.total_words)
                         /\ pc' = pc
                         /\ fault' = fault
    /\ UNCHANGED << json_file, data, ci, total_conversations, topics, outVars,
                    exportVars >>

\* Line 37: the conversation's messages are exhausted.
EndConversation ==
    /\ pc = "for_message"
    /\ mi = Len(data[ci].items.conversations)
    /\ pc' = "for_conversation"
    /\ UNCHANGED << json_file, fault, data, loopVars, countVars, turnVars, outVars,
                    exportVars >>

\* Lines 57-70 and 125: the averages and the returned dict.
ReturnStats ==
    /\ pc = "for_conversation"
    /\ ci = Len(data)
    /\ stats' = [returned            |-> TRUE,
                 total_conversations |-> total_conversations,
                 total_sentences     |-> total_sentences,
                 english_sentences   |-> english_sentences,
                 gujlish_sentences   |-> gujlish_sentences,
                 identical_sentences |-> identical_sentences,
                 topics              |-> topics,
                 language_mix_stats  |->
                     [i \in DOMAIN eng_ratios |-> << eng_ratios[i], guj_ratios[i] >>],
                 avg_eng_ratio       |-> Average(eng_ratios),
                 avg_guj_ratio       |-> Average(guj_ratios)]
    /\ pc' = "report"
    /\ UNCHANGED << json_file, fault, data, loopVars, countVars, turnVars, report,
                    plots, exportVars >>

\* ------------------------------------------------------------------ main
Line(label, value) == [label |-> label, value |-> value]

\* Lines 127-143.  Line 132 divides by stats['total_sentences'].
PrintReport ==
    /\ pc = "report"
    /\ LET head == << Line("Total Conversations", << stats.total_conversations >>),
                      Line("Total Sentences", << stats.total_sentences >>) >>
           rest == << Line("English Sentences",
                           << stats.english_sentences,
                              stats.english_sentences * 100, stats.total_sentences >>),
                      Line("Gujlish Sentences",
                           << stats.gujlish_sentences,
                              stats.gujlish_sentences * 100, stats.total_sentences >>),
                      Line("Average English Word Ratio",
                           << stats.avg_eng_ratio[1] * 100, stats.avg_eng_ratio[2] >>),
                      Line("Average Gujlish Word Ratio",
                           << stats.avg_guj_ratio[1] * 100, stats.avg_guj_ratio[2] >>),
                      Line("Top 5 Conversation Topics", MostCommon(stats.topics, 5)),
                      Line("Identical Gujlish-English Sentences",
                           << stats.identical_sentences >>) >>
       IN  IF stats.total_sentences = 0
             THEN /\ report' = report \o head
                  /\ Raise("ZeroDivisionError")
             ELSE /\ report' = report \o head \o rest
                  /\ pc' = "visualize"
                  /\ fault' = fault
    /\ UNCHANGED << json_file, data, loopVars, countVars, turnVars, stats, plots,
                    exportVars >>

\* Lines 72-121 and 145-146: the directory is created when absent, the four
\* charts are saved over whatever it held.
CreateVisualizations ==
    /\ pc = "visualize"
    /\ plots' =
         [dir   |-> TRUE,
          files |->
            [sentence_distribution |->
               << stats.english_sentences, stats.gujlish_sentences >>,
             top_topics |-> MostCommon(stats.topics, 10),
             language_mix_distribution |->
               [eng_ratios |-> [i \in DOMAIN stats.language_mix_stats |->
                                   stats.language_mix_stats[i][1]],
                mean       |-> stats.avg_eng_ratio],
             identical_sentences_pie |->
               << stats.identical_sentences,
                  stats.total_sentences - stats.identical_sentences >>]]
    /\ report' = Append(report, Line("Visualizations saved", << >>))
    /\ pc' = "done"
    /\ UNCHANGED << json_file, fault, data, loopVars, countVars, turnVars, stats,
                    exportVars >>

\* -------------------------------------------------------------- jsonToCSV
AbsentFile == [exists |-> FALSE]

\* What the output path held before the run, when it held something.
OldFile == [exists |-> TRUE, header |-> << "old" >>, rows |-> << >>]

\* Line 78, and the keys of turn_data (lines 34-40) in their order, which are
\* the DataFrame's columns.
headers == << "turn_id", "topic", "speaker", "gujlish", "english" >>

\* None is written as the empty field, by DataFrame.to_csv and by DictWriter.
Cell(v) == IF v = PyNone THEN << >> ELSE v

\* The id taken before the counter's increment.
PandasRowZeroBased(counter, topic_name, conv_turn) ==
    [turn_id |-> counter - 1,
     topic   |-> topic_name,
     speaker |-> Get(conv_turn, "speaker", PyNone),
     gujlish |-> Get(conv_turn, "gujlish", PyNone),
     english |-> Get(conv_turn, "english", PyNone)]

\* Lines 34-40.
PandasRow(counter, topic_name, conv_turn) ==
    [turn_id |-> counter,
     topic   |-> topic_name,
     speaker |-> Get(conv_turn, "speaker", PyNone),
     gujlish |-> Get(conv_turn, "gujlish", PyNone),
     english |-> Get(conv_turn, "english", PyNone)]

\* The 'english' column filled from the 'gujlish' key.
ManualRowWrongKey(counter, topic_name, conv_turn) ==
    [turn_id |-> counter,
     topic   |-> topic_name,
     speaker |-> Get(conv_turn, "speaker", PyNone),
     gujlish |-> Get(conv_turn, "gujlish", PyNone),
     english |-> Get(conv_turn, "gujlish", PyNone)]

\* Lines 92-98.
ManualRow(counter, topic_name, conv_turn) ==
    [turn_id |-> counter,
     topic   |-> topic_name,
     speaker |-> Get(conv_turn, "speaker", PyNone),
     gujlish |-> Get(conv_turn, "gujlish", PyNone),
     english |-> Get(conv_turn, "english", PyNone)]

\* One row of the file, in the header's order.
CsvRow(row) ==
    << row.turn_id, Cell(row.topic), Cell(row.speaker), Cell(row.gujlish),
       Cell(row.english) >>

\* Lines 29 and 87.
TopicName(topic_data) == Get(topic_data, "topic", UnknownTopic)

\* Lines 30 and 88.
Conversations(topic_data) == Get(topic_data, "conversations", << >>)

\* ---- json_to_csv_pandas
\* Lines 15-26.
P_Load ==
    /\ p_pc = "load"
    /\ IF json_file.status = "ok"
         THEN /\ p_raw' = json_file.content
              /\ p_pc' = "for_topic"
              /\ p_out' = p_out
         ELSE /\ p_out' = Append(p_out,
                     IF json_file.status = "missing"
                       THEN "Error: JSON file not found"
                       ELSE "Error: Could not decode JSON")
              /\ p_pc' = "returned"
              /\ p_raw' = p_raw
    /\ all_conversation_turns' = << >>
    /\ p_counter' = 0
    /\ UNCHANGED << json_file, analysisVars, m_pc, m_raw, p_ti, p_ui, m_ti, m_ui,
                    m_counter, csv_pandas, csv_manual, csv_writable, m_out >>

\* Lines 28-30: the next topic; .get on an element that is no dict raises
\* AttributeError, which nothing catches.
P_NextTopic ==
    /\ p_pc = "for_topic"
    /\ p_ti < Len(p_raw)
    /\ p_ti' = p_ti + 1
    /\ p_ui' = 0
    /\ IF GetFault(p_raw[p_ti + 1]) = "none"
         THEN p_pc' = "for_turn" /\ p_out' = p_out
         ELSE p_pc' = "raised" /\ p_out' = Append(p_out, GetFault(p_raw[p_ti + 1]))
    /\ UNCHANGED << json_file, analysisVars, m_pc, p_raw, m_raw, m_ti, m_ui,
                    p_counter, m_counter, all_conversation_turns, csv_pandas,
                    csv_manual, csv_writable, m_out >>

\* Lines 32-41: one turn.
P_Turn ==
    /\ p_pc = "for_turn"
    /\ p_ui < Len(Conversations(p_raw[p_ti]))
    /\ LET conv_turn == Conversations(p_raw[p_ti])[p_ui + 1]
       IN  /\ p_ui' = p_ui + 1
           /\ p_counter' = p_counter + 1
           /\ IF GetFault(conv_turn) = "none"
                THEN /\ all_conversation_turns' =
                          Append(all_conversation_turns,
                                 PandasRow(p_counter + 1, TopicName(p_raw[p_ti]), conv_turn))
                     /\ p_pc' = p_pc
                     /\ p_out' = p_out
                ELSE /\ all_conversation_turns' = all_conversation_turns
                     /\ p_pc' = "raised"
                     /\ p_out' = Append(p_out, GetFault(conv_turn))
    /\ UNCHANGED << json_file, analysisVars, m_pc, p_raw, m_raw, p_ti, m_ti, m_ui,
                    m_counter, csv_pandas, csv_manual, csv_writable, m_out >>

\* Line 32: the topic's turns are exhausted.
P_EndTopic ==
    /\ p_pc = "for_turn"
    /\ p_ui = Len(Conversations(p_raw[p_ti]))
    /\ p_pc' = "for_topic"
    /\ UNCHANGED << json_file, analysisVars, m_pc, p_raw, m_raw, p_ti, p_ui, m_ti,
                    m_ui, p_counter, m_counter, all_conversation_turns, csv_pandas,
                    csv_manual, csv_writable, p_out, m_out >>

\* Lines 43-55: nothing is written when there are no turns; otherwise the
\* whole table is written, or the write fails and the file is left alone.
P_Write ==
    /\ p_pc = "for_topic"
    /\ p_ti = Len(p_raw)
    /\ p_pc' = "returned"
    /\ IF all_conversation_turns = << >>
         THEN /\ p_out' = Append(p_out, "No conversation data found in the JSON file.")
              /\ csv_pandas' = csv_pandas
         ELSE IF csv_writable
           THEN /\ csv_pandas' =
                     [exists |-> TRUE,
                      header |-> headers,
                      rows   |-> [i \in DOMAIN all_conversation_turns |->
                                    CsvRow(all_conversation_turns[i])]]
                /\ p_out' = Append(p_out, "Successfully converted")
           ELSE /\ csv_pandas' = csv_pandas
                /\ p_out' = Append(p_out, "Error writing CSV file")
    /\ UNCHANGED << json_file, analysisVars, m_pc, p_raw, m_raw, p_ti, p_ui, m_ti,
                    m_ui, p_counter, m_counter, all_conversation_turns, csv_manual,
                    csv_writable, m_out >>

\* ---- json_to_csv_manual
\* Lines 67-79.  The two exporters are run one after the other on the same
\* input, each with its own output path (lines 116-120).
M_Load ==
    /\ m_pc = "load"
    /\ p_pc \in {"returned", "raised"}
    /\ IF json_file.status = "ok"
         THEN /\ m_raw' = json_file.content
              /\ m_pc' = "open"
              /\ m_out' = m_out
         ELSE /\ m_out' = Append(m_out,
                     IF json_file.status = "missing"
                       THEN "Error: JSON file not found"
                       ELSE "Error: Could not decode JSON")
              /\ m_pc' = "returned"
              /\ m_raw' = m_raw
    /\ m_counter' = 0
    /\ UNCHANGED << json_file, analysisVars, p_pc, p_raw, p_ti, p_ui, m_ti, m_ui,
                    p_counter, all_conversation_turns, csv_pandas, csv_manual,
                    csv_writable, p_out >>

\* Lines 81-84 (and 101-102): open(csv_file_path, 'w') empties the file, then
\* the header row is written.
M_Open ==
    /\ m_pc = "open"
    /\ IF csv_writable
         THEN /\ csv_manual' = [exists |-> TRUE, header |-> headers, rows |-> << >>]
              /\ m_pc' = "for_topic"
              /\ m_out' = m_out
         ELSE /\ csv_manual' = csv_manual
              /\ m_pc' = "returned"
              /\ m_out' = Append(m_out, "Error: Could not write to CSV file")
    /\ UNCHANGED << json_file, analysisVars, p_pc, p_raw, m_raw, p_ti, p_ui, m_ti,
                    m_ui, p_counter, m_counter, all_conversation_turns, csv_pandas,
                    csv_writable, p_out >>

\* Lines 86-88 (and 103-104): the next topic; the AttributeError of .get on an
\* element that is no dict is caught by 'except Exception', after the 'with'
\* block has closed the file with what was written so far.
M_NextTopic ==
    /\ m_pc = "for_topic"
    /\ m_ti < Len(m_raw)
    /\ m_ti' = m_ti + 1
    /\ m_ui' = 0
    /\ IF GetFault(m_raw[m_ti + 1]) = "none"
         THEN m_pc' = "for_turn" /\ m_out' = m_out
         ELSE /\ m_pc' = "returned"
              /\ m_out' = Append(m_out, "An unexpected error occurred")
    /\ UNCHANGED << json_file, analysisVars, p_pc, p_raw, m_raw, p_ti, p_ui,
                    p_counter, m_counter, all_conversation_turns, csv_pandas,
                    csv_manual, csv_writable, p_out >>

\* Lines 90-99 (and 103-104): one turn, its row written at once.
M_Turn ==
    /\ m_pc = "for_turn"
    /\ m_ui < Len(Conversations(m_raw[m_ti]))
    /\ LET conv_turn == Conversations(m_raw[m_ti])[m_ui + 1]
       IN  /\ m_ui' = m_ui + 1
           /\ m_counter' = m_counter + 1
           /\ IF GetFault(conv_turn) = "none"
                THEN /\ csv_manual' =
                          [csv_manual EXCEPT !.rows =
                             Append(@, CsvRow(ManualRow(m_counter + 1,
                                                        TopicName(m_raw[m_ti]),
                                                        conv_turn)))]
                     /\ m_pc' = m_pc
                     /\ m_out' = m_out
                ELSE /\ csv_manual' = csv_manual
                     /\ m_pc' = "returned"
                     /\ m_out' = Append(m_out, "An unexpected error occurred")
    /\ UNCHANGED << json_file, analysisVars, p_pc, p_raw, m_raw, p_ti, p_ui, m_ti,
                    p_counter, all_conversation_turns, csv_pandas, csv_writable,
                    p_out >>

\* Line 90: the topic's turns are exhausted.
M_EndTopic ==
    /\ m_pc = "for_turn"
    /\ m_ui = Len(Conversations(m_raw[m_ti]))
    /\ m_pc' = "for_topic"
    /\ UNCHANGED << json_file, analysisVars, p_pc, p_raw, m_raw, p_ti, p_ui, m_ti,
                    m_ui, p_counter, m_counter, all_conversation_turns, csv_pandas,
                    csv_manual, csv_writable, p_out, m_out >>

\* Line 100: every topic is written.
M_Close ==
    /\ m_pc = "for_topic"
    /\ m_ti = Len(m_raw)
    /\ m_pc' = "returned"
    /\ m_out' = Append(m_out, "Successfully converted")
    /\ UNCHANGED << json_file, analysisVars, p_pc, p_raw, m_raw, p_ti, p_ui, m_ti,
                    m_ui, p_counter, m_counter, all_conversation_turns, csv_pandas,
                    csv_manual, csv_writable, p_out >>

\* --------------------------------------------------------- specifications
\* The locals of main() before it runs.
AnalysisFresh ==
    /\ fault = "none"
    /\ data = << >>
    /\ ci = 0 /\ mi = 0
    /\ total_conversations = 0 /\ total_sentences = 0
    /\ english_sentences = 0 /\ gujlish_sentences = 0 /\ identical_sentences = 0
    /\ topics = << >>
    /\ eng_ratios = << >> /\ guj_ratios = << >>
    /\ norm_gujlish = << >> /\ norm_english = << >>
    /\ total_words = 0 /\ eng_words = 0 /\ guj_words = 0
    /\ stats = NoStats
    /\ report = << >>
    /\ plots = [dir |-> FALSE]

\* The locals of the exporters before they run.
ExportFresh ==
    /\ p_raw = << >> /\ m_raw = << >>
    /\ p_ti = 0 /\ p_ui = 0 /\ m_ti = 0 /\ m_ui = 0
    /\ p_counter = 0 /\ m_counter = 0
    /\ all_conversation_turns = << >>
    /\ p_out = << >> /\ m_out = << >>

\* main() of analyze_gujlish_dataset.py is about to run; the exporters are not.
Init ==
    /\ AnalysisInput(json_file)
    /\ pc = "load_data"
    /\ AnalysisFresh
    /\ p_pc = "idle" /\ m_pc = "idle"
    /\ ExportFresh
    /\ csv_pandas = AbsentFile /\ csv_manual = AbsentFile
    /\ csv_writable = TRUE

Next ==
    \/ LoadData
    \/ AnalyzeBegin
    \/ NextConversation
    \/ ProcessMessage
    \/ EndConversation
    \/ ReturnStats
    \/ PrintReport
    \/ CreateVisualizations

Spec == Init /\ [][Next]_vars

ExportTurns == {TurnMane, TurnNoText, JNumber}

ExportHeads == NamedHeads \cup {NoTopicKey, NoConversationsKey, NotADict}

\* The input files of the exporters.
ExportInput(file) ==
    \/ Unloadable(file)
    \/ HoldsDocOver(file, ExportTurns, ExportHeads)

\* The two exporters are about to run on the same input, their output paths
\* in the same condition; main() of the analysis is not.
ExportInit ==
    /\ ExportInput(json_file)
    /\ pc = "idle"
    /\ AnalysisFresh
    /\ p_pc = "load" /\ m_pc = "load"
    /\ ExportFresh
    /\ \E f \in {AbsentFile, OldFile} : csv_pandas = f /\ csv_manual = f
    /\ csv_writable \in BOOLEAN

ExportNext ==
    \/ P_Load
    \/ P_NextTopic
    \/ P_Turn
    \/ P_EndTopic
    \/ P_Write
    \/ M_Load
    \/ M_Open
    \/ M_NextTopic
    \/ M_Turn
    \/ M_EndTopic
    \/ M_Close

ExportSpec == ExportInit /\ [][ExportNext]_vars

\* ------------------------------------------------------ the claims' terms
\* The message the analysis read last (ProcessMessage has acted on it).
AfterMessage == pc # "idle" /\ ci >= 1 /\ mi >= 1

LastMessage == data[ci].items.conversations[mi]

HasTexts(message) ==
    IsDict(message) /\ HasKey(message, "gujlish") /\ HasKey(message, "english")

\* The next step of the analysis reads message number mi + 1.
ReadsMessage == pc = "for_message" /\ mi' = mi + 1

NextMessage == data[ci].items.conversations[mi + 1]

\* The fractions n1/d1 and n2/d2 are the same number.
SameRatio(r, n, d) == r[2] # 0 /\ r[1] * d = n * r[2]

Last(s) == s[Len(s)]

\* Every element of the document is a dict.
AllDicts(doc) ==
    \A i \in DOMAIN doc :
        /\ IsDict(doc[i])
        /\ \A j \in DOMAIN Conversations(doc[i]) : IsDict(Conversations(doc[i])[j])

\* Every topic has its two keys and every turn its two texts.
WellFormed(doc) ==
    \A i \in DOMAIN doc :
        /\ IsDict(doc[i])
        /\ HasKey(doc[i], "topic")
        /\ HasKey(doc[i], "conversations")
        /\ \A j \in DOMAIN doc[i].items.conversations :
              HasTexts(doc[i].items.conversations[j])

\* The turns of the document in input order, each with its topic's name;
\* an element that is no dict has none.
RECURSIVE FlatTurns(_)
FlatTurns(doc) ==
    IF doc = << >> THEN << >>
    ELSE LET t == Head(doc)
             own == IF IsDict(t)
                      THEN [j \in DOMAIN Conversations(t) |->
                              [topic |-> TopicName(t), turn |-> Conversations(t)[j]]]
                      ELSE << >>
         IN  own \o FlatTurns(Tail(doc))

\* The table of a document of dicts: row k is turn k, numbered k.
ExpectedRows(doc) ==
    LET flat == FlatTurns(doc)
    IN  [k \in DOMAIN flat |->
           << k, flat[k].topic,
              Cell(Get(flat[k].turn, "speaker", PyNone)),
              Cell(Get(flat[k].turn, "gujlish", PyNone)),
              Cell(Get(flat[k].turn, "english", PyNone)) >>]

\* The file was written by this run (what the path held before has another
\* header).
Written(file) == file.exists /\ file.header = headers

BothExportersEnded == p_pc \in {"returned", "raised"} /\ m_pc = "returned"

\* The number of messages read so far that had both texts and at least one
\* whitespace-delimited token in the mixed text.
RECURSIVE WordyAmong(_)
WordyAmong(messages) ==
    IF messages = << >> THEN 0
    ELSE (IF HasTexts(Head(messages)) /\ str_split(Head(messages).items.gujlish) # << >>
            THEN 1 ELSE 0) + WordyAmong(Tail(messages))

RECURSIVE WordyRead(_)
WordyRead(k) ==
    IF k = 0 THEN 0
    ELSE WordyRead(k - 1)
           + (IF k < ci
                THEN WordyAmong(data[k].items.conversations)
                ELSE WordyAmong(SubSeq(data[k].items.conversations, 1, mi)))

\* -------------------------------------------------------------- the claims
\* C1: whenever analyze_conversations has not raised, after every turn and in
\* the returned dict, total_sentences = english_sentences + gujlish_sentences.
C1_SentenceCountsAddUp ==
    /\ fault = "none" => total_sentences = english_sentences + gujlish_sentences
    /\ stats.returned =>
         stats.total_sentences = stats.english_sentences + stats.gujlish_sentences

\* C1 witness: statistics returned over a document with a turn of each kind.
C1_Witness ==
    /\ stats.returned
    /\ stats.english_sentences >= 1
    /\ stats.gujlish_sentences >= 1

\* C2 (as claimed): reading a turn that lacks 'gujlish' or 'english' never
\* raises, and a turn that lacks both is counted as identical and adds no ratio.
C2_MissingTextIsEmptyText ==
    [][ (ReadsMessage /\ ~HasTexts(NextMessage)) =>
          /\ fault' = "none"
          /\ (~HasKey(NextMessage, "gujlish") /\ ~HasKey(NextMessage, "english")) =>
               /\ english_sentences' = english_sentences + 1
               /\ identical_sentences' = identical_sentences + 1
               /\ eng_ratios' = eng_ratios
               /\ guj_ratios' = guj_ratios ]_vars

\* C3 (as claimed): both components of every pair of language_mix_stats lie
\* in [0,1]: 0 <= eng_words <= total_words and 0 <= guj_words <= total_words.
C3_RatiosWithinUnitInterval ==
    \A i \in DOMAIN eng_ratios :
        /\ 0 <= eng_ratios[i][1] /\ eng_ratios[i][1] <= eng_ratios[i][2]
        /\ 0 <= guj_ratios[i][1] /\ guj_ratios[i][1] <= guj_ratios[i][2]

\* C4 (as claimed): a run of main() over a loaded well-formed document ends
\* with no exception, the empty document included.
C4_WellFormedRunNeverFaults ==
    (json_file.status = "ok" /\ WellFormed(json_file.content)) => fault = "none"

\* A text in canonical form: no uppercase ASCII letter, no ASCII punctuation,
\* no whitespace at either end.
Canonical(text) ==
    /\ \A i \in DOMAIN text : text[i] \notin AsciiUpperSet \cup Punctuation
    /\ text # << >> => (Head(text) \notin Whitespace /\ Last(text) \notin Whitespace)

\* C5 (as claimed): normalize_text returns the canonical form of both texts
\* of every turn.
C5_NormalizedIsCanonical ==
    (AfterMessage /\ HasTexts(LastMessage)) =>
        Canonical(norm_gujlish) /\ Canonical(norm_english)

IsManeTurn(message) ==
    /\ HasTexts(message)
    /\ message.items.gujlish = Mane
    /\ message.items.english = IWant

\* C6 (as claimed): the turn "Mane ek coffee joie" / "I want a coffee" is
\* counted as Gujlish, has 4 tokens and 1 English word, and adds (0.25, 0.75).
C6_ManeHasOneEnglishWord ==
    [][ (ReadsMessage /\ IsManeTurn(NextMessage)) =>
          /\ gujlish_sentences' = gujlish_sentences + 1
          /\ english_sentences' = english_sentences
          /\ total_words' = 4
          /\ eng_words' = 1
          /\ Len(eng_ratios') = Len(eng_ratios) + 1
          /\ SameRatio(Last(eng_ratios'), 1, 4)
          /\ SameRatio(Last(guj_ratios'), 3, 4) ]_vars

\* C6 (amended): the turn "Mane ek coffee joie" / "I want a coffee" is counted
\* as Gujlish, has 4 tokens and 4 English words (each token is a run of ASCII
\* letters), and adds the pair (1.0, 0.0).
C6_ManeHasFourEnglishWords ==
    [][ (ReadsMessage /\ IsManeTurn(NextMessage)) =>
          /\ gujlish_sentences' = gujlish_sentences + 1
          /\ english_sentences' = english_sentences
          /\ identical_sentences' = identical_sentences
          /\ total_words' = 4
          /\ eng_words' = 4
          /\ guj_words' = 0
          /\ Len(eng_ratios') = Len(eng_ratios) + 1
          /\ Len(guj_ratios') = Len(guj_ratios) + 1
          /\ SameRatio(Last(eng_ratios'), 1, 1)
          /\ SameRatio(Last(guj_ratios'), 0, 1) ]_vars

\* C6 witness: that turn has just been read.
C6_Witness ==
    /\ AfterMessage
    /\ IsManeTurn(LastMessage)
    /\ fault = "none"
    /\ total_words = 4
    /\ eng_ratios # << >>

\* C7: in both exporters row k carries turn_id k, and a finished export of a
\* document of dicts holds one row per turn, in input order.
C7_TurnIdsCountTheRows ==
    /\ \A k \in DOMAIN all_conversation_turns : all_conversation_turns[k].turn_id = k
    /\ Written(csv_pandas) =>
         /\ \A k \in DOMAIN csv_pandas.rows : csv_pandas.rows[k][1] = k
         /\ AllDicts(p_raw) => csv_pandas.rows = ExpectedRows(p_raw)
    /\ Written(csv_manual) =>
         /\ \A k \in DOMAIN csv_manual.rows : csv_manual.rows[k][1] = k
         /\ m_counter >= Len(csv_manual.rows)
         /\ (m_pc = "returned" /\ AllDicts(m_raw)) =>
              csv_manual.rows = ExpectedRows(m_raw)

\* C7 witness: both files hold two rows that belong to two topics.
C7_Witness ==
    /\ BothExportersEnded
    /\ Written(csv_pandas) /\ Written(csv_manual)
    /\ Len(csv_pandas.rows) = 2 /\ Len(csv_manual.rows) = 2
    /\ Len(m_raw) >= 2
    /\ Len(Conversations(m_raw[1])) = 1

\* Every turn of the document has its row in the file.
CompleteTable(file, doc) ==
    Written(file) /\ Len(file.rows) = Len(FlatTurns(doc))

\* C8 (as claimed): an export that ended on an error leaves the output path
\* as it was, or holding the complete table.
C8_NoPartialOutput ==
    /\ (p_pc \in {"returned", "raised"} /\ p_out # << >>
          /\ Last(p_out) # "Successfully converted") =>
         \/ csv_pandas \in {AbsentFile, OldFile}
         \/ CompleteTable(csv_pandas, p_raw)
    /\ (m_pc = "returned" /\ Last(m_out) # "Successfully converted") =>
         \/ csv_manual \in {AbsentFile, OldFile}
         \/ CompleteTable(csv_manual, m_raw)

\* C9: every pair of language_mix_stats has eng_words + guj_words = total_words
\* with total_words > 0, and the pairs are exactly those of the turns read so
\* far that have at least one token.
C9_RatioPairsSumToOne ==
    /\ Len(eng_ratios) = Len(guj_ratios)
    /\ \A i \in DOMAIN eng_ratios :
          /\ eng_ratios[i][2] > 0
          /\ guj_ratios[i][2] = eng_ratios[i][2]
          /\ eng_ratios[i][1] + guj_ratios[i][1] = eng_ratios[i][2]
    /\ (pc \in {"for_conversation", "for_message"} /\ fault = "none") =>
          Len(eng_ratios) = WordyRead(ci)

\* C9 witness: a turn with tokens and a turn without have been read.
C9_Witness ==
    /\ fault = "none"
    /\ pc = "for_message"
    /\ total_sentences = 2
    /\ Len(eng_ratios) = 1

\* C10 (as claimed): over a document of dicts the two exporters leave the same
\* output, also when the document has no turns.
C10_ExportersAgree ==
    (BothExportersEnded /\ json_file.status = "ok" /\ AllDicts(json_file.content)) =>
        csv_pandas = csv_manual

\* C10 (amended): over a document of dicts with at least one turn the two
\* exporters leave the same output; over one without turns json_to_csv_pandas
\* leaves the path as it was and json_to_csv_manual, if it can open the path,
\* leaves the header alone.
C10_ExportersAgreeOnTurns ==
    (BothExportersEnded /\ json_file.status = "ok" /\ AllDicts(json_file.content)) =>
        IF FlatTurns(json_file.content) # << >>
          THEN csv_pandas = csv_manual
          ELSE /\ csv_pandas \in {AbsentFile, OldFile}
               /\ IF csv_writable
                    THEN csv_manual = [exists |-> TRUE, header |-> headers, rows |-> << >>]
                    ELSE csv_manual = csv_pandas

\* C10 witness: both exporters have written a turn with two different texts.
C10_Witness ==
    /\ BothExportersEnded
    /\ Written(csv_pandas) /\ Written(csv_manual)
    /\ AllDicts(json_file.content)
    /\ \E k \in DOMAIN csv_manual.rows : csv_manual.rows[k][4] # csv_manual.rows[k][5]

====
